---- MODULE Spec2Model ----
(***************************************************************************)
(* socketscpi.SocketInstrument: SCPI over a raw TCP socket.               *)
(*                                                                         *)
(* Bytes are their latin_1 codes (0..255); a byte string and a decoded    *)
(* latin_1 text are both sequences of codes (one byte per character).     *)
(* The client is one sequential Python thread: its call stack is `stack`, *)
(* a step is taken at every socket call that can block.  The instrument   *)
(* and the network are the environment: the peer queues bytes, the        *)
(* network delivers them to the socket's receive buffer in any            *)
(* segmentation, and a blocked receive may time out.                      *)
(***************************************************************************)
EXTENDS Integers, Sequences, FiniteSets, TLC

\* ------------------------------------------------------------------ bounds
MaxOps == 1
MaxErrors == 2
MaxCuts == 1
MaxDepth == 5
MaxShort == 1
ShortWithin == 1
MaxSessionOps == 3

\* --------------------------------------------------------- program constants
DefaultTimeout == 10
HeaderTimeout == 1
RecvBufSize == 1024
MaxBinblockBytes == 1000000000

\* ------------------------------------------------------------- byte helpers
NL == 10
HASH == 35
QMARK == 63
PLUS == 43
MINUS == 45
DOT == 46
COLON == 58


RECURSIVE Flat(_)
Flat(ss) == IF ss = <<>> THEN <<>> ELSE Head(ss) \o Flat(Tail(ss))

Drop(s, k) == SubSeq(s, k + 1, Len(s))
Take(s, k) == SubSeq(s, 1, k)
Min(a, b) == IF a < b THEN a ELSE b
Last(s) == s[Len(s)]

IsDigit(b) == b \in 48..57

\* str.strip() with no argument, on a latin_1-decoded str
IsSpace(b) == b \in {9, 10, 11, 12, 13, 28, 29, 30, 31, 32, 133, 160}

RECURSIVE LStrip(_)
LStrip(s) == IF s # <<>> /\ IsSpace(Head(s)) THEN LStrip(Tail(s)) ELSE s

RECURSIVE RStrip(_)
RStrip(s) == IF s # <<>> /\ IsSpace(Last(s)) THEN RStrip(Take(s, Len(s) - 1)) ELSE s

strip_nothing(s) == s

strip(s) == RStrip(LStrip(s))

\* str.replace(ch, '')
replace(s, ch) == SelectSeq(s, LAMBDA b : b # ch)

\* `sub in s` for str
Contains(s, sub) ==
    \E i \in 0..(Len(s) - Len(sub)) : SubSeq(s, i + 1, i + Len(sub)) = sub

\* str(n) for n >= 0
RECURSIVE str(_)
str(n) == IF n < 10 THEN <<48 + n>> ELSE str(n \div 10) \o <<48 + (n % 10)>>

\* value of a hexadecimal digit character, -1 when it is none
HexVal(b) ==
    IF b \in 48..57 THEN b - 48
    ELSE IF b \in 97..102 THEN b - 87
    ELSE IF b \in 65..70 THEN b - 55
    ELSE -1

\* int(text, 16) of a text of at most one character; "ValueError" when it raises
int16(s) ==
    IF Len(s) = 1 /\ HexVal(s[1]) >= 0
    THEN [ok |-> TRUE, val |-> HexVal(s[1])]
    ELSE [ok |-> FALSE, val |-> 0]

RECURSIVE DigitsVal(_)
DigitsVal(s) ==
    IF s = <<>> THEN 0
    ELSE IF Last(s) = 95 THEN DigitsVal(Take(s, Len(s) - 1))
    ELSE DigitsVal(Take(s, Len(s) - 1)) * 10 + (Last(s) - 48)

\* digits, single underscores (code 95) allowed between digits
DigitsOk(s) ==
    /\ s # <<>>
    /\ \A i \in 1..Len(s) : IsDigit(s[i]) \/ s[i] = 95
    /\ IsDigit(s[1]) /\ IsDigit(Last(s))
    /\ \A i \in 1..(Len(s) - 1) : ~(s[i] = 95 /\ s[i + 1] = 95)

\* int(text): surrounding whitespace, an optional sign, decimal digits
int10(s) ==
    LET t == strip(s)
        neg == t # <<>> /\ Head(t) = MINUS
        u == IF t # <<>> /\ Head(t) \in {PLUS, MINUS} THEN Tail(t) ELSE t
    IN IF DigitsOk(u)
       THEN [ok |-> TRUE, val |-> IF neg THEN 0 - DigitsVal(u) ELSE DigitsVal(u)]
       ELSE [ok |-> FALSE, val |-> 0]

\* ------------------------------------------------------------------- texts
\* '*opc?'
CmdOpcQ == <<42, 111, 112, 99, QMARK>>
\* '*opc'
CmdOpc == <<42, 111, 112, 99>>
\* 'calculate:x?'
CmdData == <<99, 97, 108, 99, 117, 108, 97, 116, 101, 58, 120, QMARK>>
\* 'system:error?'
ErrQueryCmd == <<115, 121, 115, 116, 101, 109, 58, 101, 114, 114, 111, 114, QMARK>>
\* '*idn?'
CmdIdn == <<42, 105, 100, 110, QMARK>>
\* '0,"No error'
NoErrorText == <<48, 44, 34, 78, 111, 32, 101, 114, 114, 111, 114>>

\* a command argument is any Python value: a str, or something else (19, a list)
StrCmd(t) == [kind |-> "str", text |-> t]
IntCmd == [kind |-> "int", text |-> <<>>]
ListCmd == [kind |-> "list", text |-> <<>>]

isinstance_str(cmd) == cmd.kind = "str"

\* ---------------------------------------------------------- binary block codec
ItemSize_any(datatype) ==
    CASE datatype \in {"b", "B"} -> 1
      [] datatype \in {"h", "H"} -> 2
      [] datatype \in {"i", "l", "I", "L", "f"} -> 4
      [] datatype \in {"q", "Q", "d"} -> 8
      [] OTHER -> 1

\* the struct format characters query_binary_values accepts, with the item
\* size of the numpy dtype each selects; 0 when the character is rejected
ItemSize(datatype) ==
    CASE datatype \in {"b", "B"} -> 1
      [] datatype \in {"h", "H"} -> 2
      [] datatype \in {"i", "l", "I", "L", "f"} -> 4
      [] datatype \in {"q", "Q", "d"} -> 8
      [] OTHER -> 0

binblock_header_unlimited(numBytes) ==
    [ok |-> TRUE, text |-> <<HASH>> \o str(Len(str(numBytes))) \o str(numBytes)]

\* binblock_header, on memoryview(data).nbytes
binblock_header(numBytes) ==
    IF numBytes >= MaxBinblockBytes
    THEN [ok |-> FALSE, text |-> <<>>]
    ELSE [ok |-> TRUE, text |-> <<HASH>> \o str(Len(str(numBytes))) \o str(numBytes)]

\* np.frombuffer(rawData, dtype): the elements, each the bytes it is made of
frombuffer(rawData, w) ==
    [i \in 1..(Len(rawData) \div w) |-> SubSeq(rawData, (i - 1) * w + 1, i * w)]

\* ------------------------------------------------------------- environment
\* what an instrument answers to 'system:error?': the no-error text, or an
\* entry of its error queue
NoErrorReply == <<PLUS>> \o NoErrorText \o <<34, NL>>
ErrReplyA == <<MINUS, 49, NL>>
ErrReplyB == <<PLUS, 50, MINUS, 51, NL>>
\* what it answers to '*opc?': '1', bare or with blanks and a carriage return
\* around it
TextReply == <<49, NL>>
TextReplyPadded == <<32, 49, 13, NL>>
TextReplies == {TextReply, TextReplyPadded}
\* what it answers to '*idn?', 'K,1', and the identity __init__ caches of it
IdnReply == <<75, 44, 49, NL>>
IdnText == strip(IdnReply)

\* payloads handed to write_binary_values (the bytes of the numpy array)
Payload1 == <<65>>
Payload10 == <<66, 67, 68, 69, 70, 71, 72, 73, 74, 75>>
Payloads == {Payload1, Payload10}
\* an array of 10^9 bytes, which is never sent: it stands for its size alone
HugeArray == <<-1>>
nbytes_len(data) == Len(data)

\* memoryview(data).nbytes
nbytes(data) == IF data = HugeArray THEN MaxBinblockBytes ELSE Len(data)

\* the frame write_binary_values puts on the wire for data, after the command
WireFrame(data) == binblock_header(Len(data)).text \o data \o <<NL>>

\* what it answers to 'calculate:x?': a frame it was sent earlier, a frame
\* with no payload, or a frame with digit-count '0', with digit-count 'a',
\* with a terminator that does not come, with a byte too many before the
\* newline
FrameEmpty == <<HASH, 49, 48, NL>>
FrameZeroDigit == <<HASH, 48, NL>>
FrameHexDigit == <<HASH, 97, 48, 48, 48, 48, 48, 48, 48, 48, 48, 49, 65, NL>>
FrameNoTerm == <<HASH, 49, 49, 65>>
FrameBadTerm == <<HASH, 49, 49, 65, 66, NL>>
Frames == {WireFrame(d) : d \in Payloads}
              \cup {FrameEmpty, FrameZeroDigit, FrameHexDigit, FrameNoTerm, FrameBadTerm}

NotStr == {IntCmd, ListCmd}
WriteCmds == {StrCmd(CmdOpcQ), StrCmd(CmdOpc)} \cup NotStr
QueryCmds == {StrCmd(CmdOpcQ), StrCmd(CmdOpc)} \cup NotStr
BinQueryCmds == {StrCmd(CmdData), StrCmd(CmdOpcQ)} \cup NotStr
BinWriteCmds == {StrCmd(CmdOpc)} \cup NotStr
DataTypes == {"b", "h", "d", "r"}

\* the reply a message sent by the client makes the instrument owe: one per
\* command line that holds a '?'
ReplyKind(msg) ==
    IF msg = <<>> \/ Last(msg) # NL \/ ~(\E i \in 1..Len(msg) : msg[i] = QMARK)
    THEN "none"
    ELSE IF msg = ErrQueryCmd \o <<NL>> THEN "err"
    ELSE IF msg = CmdData \o <<NL>> THEN "bin"
    ELSE IF msg = CmdOpcQ \o <<NL>> THEN "text"
    ELSE IF msg = CmdIdn \o <<NL>> THEN "idn"
    ELSE "none"

ReplyKinds(msgs) ==
    SelectSeq([i \in 1..Len(msgs) |-> ReplyKind(msgs[i])], LAMBDA k : k # "none")

\* the command lines the instrument finds in the bytes it has received: it
\* takes a line when the newline that ends it is there
Lines(s) ==
    LET ends == {i \in 1..Len(s) : s[i] = NL}
        end(k) == CHOOSE i \in ends : Cardinality({j \in ends : j < i}) = k - 1
    IN [k \in 1..Cardinality(ends) |->
           SubSeq(s, IF k = 1 THEN 1 ELSE end(k - 1) + 1, end(k))]

\* ------------------------------------------------------------------- state
VARIABLES
    globalErrCheck,  \* self.globalErrCheck
    timeout,         \* self.timeout
    sockTimeout,     \* the timeout in effect on self.socket
    stack,           \* the call stack of the client thread, outermost first
    ret,             \* the value a callee has just returned to the top frame
    outcome,         \* how the last finished operation ended
    rx,              \* bytes that have arrived at the socket and are unread
    inflight,        \* the segments the peer has sent that have not arrived yet
    tx,              \* the messages the operation has sent, one per send call
    op,              \* the operation in progress or last finished, with its arguments
    hist,            \* what happened during that operation
    nOps,            \* operations called so far
    owed,            \* the replies the instrument still owes, oldest first
    nErr,            \* error-queue entries the instrument has reported
    nCuts,           \* segment boundaries the network has put inside replies
    wire,            \* the bytes the socket has accepted in the operation
    nShort,          \* send calls that have accepted less than they were given
    callers,         \* the threads that share the connection, when several do
    mutex,           \* whether those threads serialize their calls by a lock
    sock,            \* self.socket: "none" before it is created, "open", "closed";
                     \* "peer_closed" when it is open and the peer has closed
                     \* the connection
    instId,          \* self.instId
    opsLimit,        \* the number of calls the program makes
    log              \* the calls that have ended, with how they ended, oldest first

vars == <<globalErrCheck, timeout, sockTimeout, stack, ret, outcome, rx,
          inflight, tx, op, hist, nOps, owed, nErr, nCuts, wire, nShort,
          callers, mutex, sock, instId, opsLimit, log>>

NoRet == [kind |-> "none", val |-> <<>>]
NoOutcome == [kind |-> "none", val |-> <<>>]

BaseFrame ==
    [fn |-> "", pc |-> "", errCheck |-> FALSE,
     response |-> <<>>, bound |-> FALSE, result |-> <<>>,
     err |-> <<>>, seen |-> <<>>,
     itemsize |-> 0, headerLength |-> 0, numBytes |-> 0, rawData |-> <<>>, off |-> 0]

Frame(fn, pc) == [BaseFrame EXCEPT !.fn = fn, !.pc = pc]

NoOp == [name |-> "none", cmd |-> IntCmd, errCheck |-> FALSE, datatype |-> "", data |-> <<>>]

\* what is recorded of an operation: whether the connection was quiet when it
\* was called, the replies the instrument sent during it, the receives that
\* timed out, the err_check calls by the place that made them, the header
\* bytes query_binary_values received, and the responses query returned to
\* err_check
NoHist ==
    [clean |-> TRUE, fed |-> <<>>,
     timeouts |-> 0, hdrTimeout |-> FALSE, termTimeout |-> FALSE,
     autoChecks |-> 0, timeoutChecks |-> 0,
     digit |-> <<>>, count |-> <<>>, term |-> <<>>, payloadDone |-> FALSE,
     responses |-> <<>>, eof |-> FALSE]

\* the record of an operation that is being called
NewHist == [NoHist EXCEPT !.clean = rx = <<>> /\ inflight = <<>> /\ owed = <<>>]

Top == stack[Len(stack)]
Idle == stack = <<>>
SetTop(f) == [stack EXCEPT ![Len(stack)] = f]
Pop == Take(stack, Len(stack) - 1)

\* the client thread is inside a receive call
Blocked == ~Idle /\ ret.kind = "none"

Init ==
    /\ globalErrCheck \in BOOLEAN
    /\ timeout = DefaultTimeout
    /\ sockTimeout = DefaultTimeout
    /\ stack = <<>>
    /\ ret = NoRet
    /\ outcome = NoOutcome
    /\ rx = <<>>
    /\ inflight = <<>>
    /\ tx = <<>>
    /\ op = NoOp
    /\ hist = NoHist
    /\ nOps = 0
    /\ owed = <<>>
    /\ nErr = 0
    /\ nCuts = 0
    /\ wire = <<>>
    /\ nShort = 0
    /\ callers = <<>>
    /\ mutex = FALSE
    /\ sock = "open"
    /\ instId = IdnText
    /\ opsLimit = MaxOps
    /\ log = <<>>

\* ----------------------------------------------------------- control transfer
Ctl(stk, r, out, st, t) ==
    [stack |-> stk, ret |-> r, outcome |-> out, sockTimeout |-> st, tx |-> t]

\* self.socket.send(msg): the bytes the socket may accept, the first k of
\* msg for some k >= 1; the number is returned and the callers drop it
send(msg) == {Take(msg, k) : k \in 1..Len(msg)}

\* what a run of send calls puts on the wire: every message whole, or, while
\* short sends are within their bounds (MaxShort of them, each among the
\* first ShortWithin send calls of an operation, done of which were made
\* before), one of them cut short; sendall, which write_binary_values uses
\* for its data (the third thing it sends), and a send of one byte transmit
\* everything
Transmitted(msgs, done, sendall) ==
    {[bytes |-> Flat(msgs), short |-> 0]}
        \cup IF nShort >= MaxShort THEN {}
             ELSE UNION {{[bytes |-> Flat([msgs EXCEPT ![i] = part]), short |-> 1] :
                             part \in send(msgs[i]) \ {msgs[i]}} :
                         i \in {j \in 1..Len(msgs) : done + j <= ShortWithin} \ sendall}

\* the client moves on; what it sent in the step reaches the instrument,
\* which owes a reply for every query line that has become complete
Goto(c) ==
    /\ stack' = c.stack
    /\ ret' = c.ret
    /\ outcome' = c.outcome
    /\ sockTimeout' = c.sockTimeout
    /\ tx' = c.tx
    /\ LET fresh == stack = <<>>
           done == IF fresh THEN 0 ELSE Len(tx)
           msgs == Drop(c.tx, done)
           before == IF fresh THEN <<>> ELSE wire
           sendall == IF fresh /\ op'.name = "write_binary_values" THEN {3} ELSE {}
       IN \E t \in Transmitted(msgs, done, sendall) :
              /\ wire' = before \o t.bytes
              /\ nShort' = nShort + t.short
              /\ owed' = owed \o ReplyKinds(Drop(Lines(before \o t.bytes),
                                                 Len(Lines(before))))

\* the try statement of query_binary_values is active while the outermost
\* frame waits for the '#' byte or for the err_check of its except clause
InTry == stack # <<>> /\ stack[1].fn = "query_binary_values"
                      /\ stack[1].pc \in {"hash", "hdr_err_check"}

finally_skipped == sockTimeout

finally_settimeout_header == IF InTry THEN HeaderTimeout ELSE sockTimeout

\* finally: self.socket.settimeout(self.timeout)
finally_settimeout == IF InTry THEN timeout ELSE sockTimeout

\* an exception leaves every frame; no frame but the try of
\* query_binary_values has a handler on its way
Raise(exc, val, t) ==
    Ctl(<<>>, NoRet, [kind |-> exc, val |-> val], finally_settimeout, t)

\* the top frame returns val to its caller, or to the program
Return(val, t) ==
    IF Len(stack) <= 1
    THEN Ctl(<<>>, NoRet, [kind |-> "return", val |-> val], sockTimeout, t)
    ELSE Ctl(Pop, [kind |-> "value", val |-> val], outcome, sockTimeout, t)

\* self.query(cmd, errCheck=False) as err_check calls it: the command passes
\* both checks of query, write sends it, read is entered
ErrQueryFrame == Frame("query", "read")

\* self.err_check() called from the top frame of stk: err = [] and the first
\* query is under way; the interpreter gives up at its recursion limit
call_err_check(stk, t) ==
    IF Len(stk) + 2 > MaxDepth
    THEN Raise("RecursionError", <<>>, t)
    ELSE Ctl(stk \o <<Frame("err_check", "query"), ErrQueryFrame>>, NoRet, outcome,
             sockTimeout, Append(t, ErrQueryCmd \o <<NL>>))

\* a call by the program; tx starts empty for it
\* there is an object: the constructor has returned
Constructed ==
    /\ sock \in {"open", "peer_closed", "closed"}
    /\ ~(op.name = "__init__" /\ outcome.kind # "return")

\* the program makes its next call when the last one has ended: the
\* constructor call when there is no object yet, a method call when there is
Begin(name, cmd, errCheck, datatype, data) ==
    /\ Idle
    /\ nOps < opsLimit
    /\ IF name = "__init__" THEN sock = "none" ELSE Constructed
    /\ nOps' = nOps + 1
    /\ op' = [name |-> name, cmd |-> cmd, errCheck |-> errCheck,
              datatype |-> datatype, data |-> data]
    /\ log' = IF op.name = "none" THEN log
              ELSE Append(log, [name |-> op.name, cmd |-> op.cmd, errCheck |-> op.errCheck,
                                kind |-> outcome.kind, val |-> outcome.val,
                                wire |-> wire])

auto_check_either(errCheck) == errCheck \/ globalErrCheck

\* if errCheck and self.globalErrCheck
auto_check(errCheck) == errCheck /\ globalErrCheck

\* ------------------------------------------------------------------- write
write_accepts_all(cmd) == FALSE

\* if not isinstance(cmd, str): raise SockInstError(...)
write_rejects(cmd) == ~isinstance_str(cmd)

write(cmd, errCheck) ==
    /\ Begin("write", cmd, errCheck, "", <<>>)
    /\ IF write_rejects(cmd)
       THEN /\ Goto(Raise("SockInstError", <<>>, <<>>))
            /\ hist' = NewHist
       ELSE IF sock = "closed"
       THEN /\ Goto(Raise("OSError", <<>>, <<>>))
            /\ hist' = NewHist
       ELSE LET t == <<cmd.text \o <<NL>>>> IN
            IF auto_check(errCheck)
            THEN /\ Goto(call_err_check(<<Frame("write", "err_check")>>, t))
                 /\ hist' = [NewHist EXCEPT !.autoChecks = 1]
            ELSE /\ Goto(Return(<<>>, t))
                 /\ hist' = NewHist
    /\ UNCHANGED <<callers, mutex, globalErrCheck, timeout, sock, instId, opsLimit, rx, inflight, nErr, nCuts>>

\* err_check has returned to write or to write_binary_values
write_return ==
    /\ ~Idle
    /\ Top.fn \in {"write", "write_binary_values"}
    /\ ret.kind = "value"
    /\ Goto(Return(<<>>, tx))
    /\ UNCHANGED <<callers, mutex, globalErrCheck, timeout, sock, instId, opsLimit, rx, inflight, op, log, hist, nOps, nErr, nCuts>>

\* ------------------------------------------------------------------- query
query_rejects_non_str(cmd) == ~isinstance_str(cmd)

\* if not isinstance(cmd, str): raise ...; if '?' not in cmd: raise ...
query_rejects(cmd) ==
    \/ ~isinstance_str(cmd)
    \/ ~(\E i \in 1..Len(cmd.text) : cmd.text[i] = QMARK)

query(cmd, errCheck) ==
    /\ Begin("query", cmd, errCheck, "", <<>>)
    /\ hist' = NewHist
    /\ IF query_rejects(cmd)
       THEN Goto(Raise("SockInstError", <<>>, <<>>))
       ELSE IF sock = "closed"
       THEN Goto(Raise("OSError", <<>>, <<>>))
       ELSE Goto(Ctl(<<[Frame("query", "read") EXCEPT !.errCheck = errCheck]>>, NoRet,
                     outcome, sockTimeout, <<cmd.text \o <<NL>>>>))
    /\ UNCHANGED <<callers, mutex, globalErrCheck, timeout, sock, instId, opsLimit, rx, inflight, nErr, nCuts>>

\* the rest of query once result is bound or the except clause is done
query_tail(f) ==
    IF auto_check(f.errCheck)
    THEN /\ Goto(call_err_check(SetTop([f EXCEPT !.pc = "auto_err_check"]), tx))
         /\ hist' = [hist EXCEPT !.autoChecks = @ + 1]
    ELSE /\ hist' = hist
         /\ IF f.bound
            THEN Goto(Return(f.result, tx))
            ELSE Goto(Raise("UnboundLocalError", <<>>, tx))

\* read(): one self.socket.recv(1024) of the loop, called by the program or
\* by query, which goes on when read returns
read_recv ==
    /\ ~Idle
    /\ Top.fn \in {"query", "read"} /\ Top.pc = "read"
    /\ rx # <<>>
    /\ LET k == Min(RecvBufSize, Len(rx))
           response == Top.response \o Take(rx, k)
       IN /\ rx' = Drop(rx, k)
          /\ IF Last(response) # NL
             THEN /\ Goto(Ctl(SetTop([Top EXCEPT !.response = response]), NoRet,
                              outcome, sockTimeout, tx))
                  /\ hist' = hist
             ELSE IF Top.fn = "read"
             THEN /\ Goto(Return(strip(response), tx))
                  /\ hist' = hist
             ELSE query_tail([Top EXCEPT !.response = response, !.bound = TRUE,
                                         !.result = strip(response)])
    /\ UNCHANGED <<callers, mutex, globalErrCheck, timeout, sock, instId, opsLimit, inflight, op, log, nOps, nErr, nCuts>>

\* except socket.timeout: self.err_check()
read_timeout ==
    /\ ~Idle
    /\ Top.fn = "query" /\ Top.pc = "read"
    /\ rx = <<>>
    /\ Goto(call_err_check(SetTop([Top EXCEPT !.pc = "timeout_err_check"]), tx))
    /\ hist' = [hist EXCEPT !.timeouts = @ + 1, !.timeoutChecks = @ + 1]
    /\ UNCHANGED <<callers, mutex, globalErrCheck, timeout, sock, instId, opsLimit, rx, inflight, op, log, nOps, nErr, nCuts>>

\* err_check has returned to query
query_resume ==
    /\ ~Idle
    /\ Top.fn = "query" /\ ret.kind = "value"
    /\ IF Top.pc = "timeout_err_check"
       THEN query_tail(Top)
       ELSE /\ hist' = hist
            /\ IF Top.bound
               THEN Goto(Return(Top.result, tx))
               ELSE Goto(Raise("UnboundLocalError", <<>>, tx))
    /\ UNCHANGED <<callers, mutex, globalErrCheck, timeout, sock, instId, opsLimit, rx, inflight, op, log, nOps, nErr, nCuts>>

\* --------------------------------------------------------------- err_check
\* .strip().replace('+', '').replace('-', '')
normalize(response) == replace(replace(strip(response), PLUS), MINUS)

\* the loop test of err_check, negated
IsNoError(temp) == Contains(temp, NoErrorText)

err_check ==
    /\ Begin("err_check", IntCmd, FALSE, "", <<>>)
    /\ IF sock = "closed"
       THEN Goto(Raise("OSError", <<>>, <<>>))
       ELSE Goto(call_err_check(<<>>, <<>>))
    /\ hist' = NewHist
    /\ UNCHANGED <<callers, mutex, globalErrCheck, timeout, sock, instId, opsLimit, rx, inflight, nErr, nCuts>>

\* an `if` where the `while` is: the loop body runs once at most
err_check_resume_if ==
    /\ ~Idle
    /\ Top.fn = "err_check" /\ ret.kind = "value"
    /\ hist' = [hist EXCEPT !.responses = Append(@, ret.val)]
    /\ LET temp == normalize(ret.val) IN
       IF ~IsNoError(temp) /\ Top.err = <<>>
       THEN Goto(Ctl(SetTop([Top EXCEPT !.err = Append(@, temp),
                                        !.seen = Append(@, ret.val)]) \o <<ErrQueryFrame>>,
                     NoRet, outcome, sockTimeout, Append(tx, ErrQueryCmd \o <<NL>>)))
       ELSE IF Top.err # <<>>
       THEN Goto(Raise("SockInstError", Top.err, tx))
       ELSE Goto(Return(<<>>, tx))
    /\ UNCHANGED <<callers, mutex, globalErrCheck, timeout, sock, instId, opsLimit, rx, inflight, op, log, nOps, nErr, nCuts>>

\* the loop body waits for a further response without sending a further query
err_check_resume_reads ==
    /\ ~Idle
    /\ Top.fn = "err_check" /\ ret.kind = "value"
    /\ hist' = [hist EXCEPT !.responses = Append(@, ret.val)]
    /\ LET temp == normalize(ret.val) IN
       IF ~IsNoError(temp)
       THEN Goto(Ctl(SetTop([Top EXCEPT !.err = Append(@, temp),
                                        !.seen = Append(@, ret.val)]) \o <<ErrQueryFrame>>,
                     NoRet, outcome, sockTimeout, tx))
       ELSE IF Top.err # <<>>
       THEN Goto(Raise("SockInstError", Top.err, tx))
       ELSE Goto(Return(<<>>, tx))
    /\ UNCHANGED <<callers, mutex, globalErrCheck, timeout, sock, instId, opsLimit, rx, inflight, op, log, nOps, nErr, nCuts>>

\* query has returned a response to err_check: the loop test and its body,
\* or the statement after the loop
err_check_resume ==
    /\ ~Idle
    /\ Top.fn = "err_check" /\ ret.kind = "value"
    /\ hist' = [hist EXCEPT !.responses = Append(@, ret.val)]
    /\ LET temp == normalize(ret.val) IN
       IF ~IsNoError(temp)
       THEN Goto(Ctl(SetTop([Top EXCEPT !.err = Append(@, temp),
                                        !.seen = Append(@, ret.val)]) \o <<ErrQueryFrame>>,
                     NoRet, outcome, sockTimeout, Append(tx, ErrQueryCmd \o <<NL>>)))
       ELSE IF Top.err # <<>>
       THEN Goto(Raise("SockInstError", Top.err, tx))
       ELSE Goto(Return(<<>>, tx))
    /\ UNCHANGED <<callers, mutex, globalErrCheck, timeout, sock, instId, opsLimit, rx, inflight, op, log, nOps, nErr, nCuts>>

\* ----------------------------------------------------- query_binary_values
Zeros(n) == [i \in 1..n |-> 0]

query_binary_values(cmd, datatype, errCheck) ==
    /\ Begin("query_binary_values", cmd, errCheck, datatype, <<>>)
    /\ hist' = NewHist
    /\ IF ItemSize(datatype) = 0
       THEN Goto(Raise("BinblockError", <<>>, <<>>))
       ELSE IF write_rejects(cmd)
       THEN Goto(Raise("SockInstError", <<>>, <<>>))
       ELSE IF sock = "closed"
       THEN Goto(Raise("OSError", <<>>, <<>>))
       ELSE Goto(Ctl(<<[Frame("query_binary_values", "hash") EXCEPT
                            !.errCheck = errCheck, !.itemsize = ItemSize(datatype)]>>,
                     NoRet, outcome, HeaderTimeout, <<cmd.text \o <<NL>>>>))
    /\ UNCHANGED <<callers, mutex, globalErrCheck, timeout, sock, instId, opsLimit, rx, inflight, nErr, nCuts>>

\* the byte received is taken for '#' whatever it is
hash_recv_any ==
    /\ ~Idle
    /\ Top.fn = "query_binary_values" /\ Top.pc = "hash"
    /\ rx # <<>>
    /\ rx' = Tail(rx)
    /\ Goto(Ctl(SetTop([Top EXCEPT !.pc = "digit"]), NoRet, outcome,
                finally_settimeout, tx))
    /\ UNCHANGED <<callers, mutex, globalErrCheck, timeout, sock, instId, opsLimit, inflight, op, log, hist, nOps, nErr, nCuts>>

\* if self.socket.recv(1) != b'#': raise ...; finally: settimeout(self.timeout)
hash_recv ==
    /\ ~Idle
    /\ Top.fn = "query_binary_values" /\ Top.pc = "hash"
    /\ rx # <<>>
    /\ rx' = Tail(rx)
    /\ IF Head(rx) # HASH
       THEN Goto(Raise("BinblockError", <<>>, tx))
       ELSE Goto(Ctl(SetTop([Top EXCEPT !.pc = "digit"]), NoRet, outcome,
                     finally_settimeout, tx))
    /\ UNCHANGED <<callers, mutex, globalErrCheck, timeout, sock, instId, opsLimit, inflight, op, log, hist, nOps, nErr, nCuts>>

\* except socket.timeout: self.err_check()
hash_timeout ==
    /\ ~Idle
    /\ Top.fn = "query_binary_values" /\ Top.pc = "hash"
    /\ rx = <<>>
    /\ Goto(call_err_check(SetTop([Top EXCEPT !.pc = "hdr_err_check"]), tx))
    /\ hist' = [hist EXCEPT !.timeouts = @ + 1, !.hdrTimeout = TRUE,
                            !.timeoutChecks = @ + 1]
    /\ UNCHANGED <<callers, mutex, globalErrCheck, timeout, sock, instId, opsLimit, rx, inflight, op, log, nOps, nErr, nCuts>>

\* return np.frombuffer(rawData, dtype=dtype)
qbv_return(f) ==
    IF Len(f.rawData) % f.itemsize # 0
    THEN Raise("ValueError", <<>>, tx)
    ELSE Return(frombuffer(f.rawData, f.itemsize), tx)

\* err_check has returned to query_binary_values: from the except clause of
\* the header byte (the finally clause runs, the header is read next), or
\* from the automatic check before the return
qbv_resume ==
    /\ ~Idle
    /\ Top.fn = "query_binary_values" /\ ret.kind = "value"
    /\ IF Top.pc = "hdr_err_check"
       THEN Goto(Ctl(SetTop([Top EXCEPT !.pc = "digit"]), NoRet, outcome,
                     finally_settimeout, tx))
       ELSE Goto(qbv_return(Top))
    /\ UNCHANGED <<callers, mutex, globalErrCheck, timeout, sock, instId, opsLimit, rx, inflight, op, log, hist, nOps, nErr, nCuts>>

\* headerLength = int(self.socket.recv(1).decode('latin_1'), 16); when it is
\* 0 the next recv(0) returns b'' at once and int('') raises
digit_recv ==
    /\ ~Idle
    /\ Top.fn = "query_binary_values" /\ Top.pc = "digit"
    /\ rx # <<>>
    /\ rx' = Tail(rx)
    /\ hist' = [hist EXCEPT !.digit = <<Head(rx)>>]
    /\ LET headerLength == int16(<<Head(rx)>>) IN
       IF ~headerLength.ok
       THEN Goto(Raise("ValueError", <<>>, tx))
       ELSE IF ~int10(Take(rx, 0)).ok /\ headerLength.val = 0
       THEN Goto(Raise("ValueError", <<>>, tx))
       ELSE Goto(Ctl(SetTop([Top EXCEPT !.pc = "count",
                                        !.headerLength = headerLength.val]),
                     NoRet, outcome, sockTimeout, tx))
    /\ UNCHANGED <<callers, mutex, globalErrCheck, timeout, sock, instId, opsLimit, inflight, op, log, nOps, nErr, nCuts>>

bytearray_rejects_zero(n) == n <= 0

\* rawData = bytearray(numBytes) raises ValueError for a negative count
bytearray_rejects(n) == n < 0

\* numBytes = int(self.socket.recv(headerLength).decode('latin_1'));
\* rawData = bytearray(numBytes); buf = memoryview(rawData)
count_recv ==
    /\ ~Idle
    /\ Top.fn = "query_binary_values" /\ Top.pc = "count"
    /\ rx # <<>>
    /\ LET k == Min(Top.headerLength, Len(rx))
           numBytes == int10(Take(rx, k))
       IN /\ rx' = Drop(rx, k)
          /\ hist' = [hist EXCEPT !.count = Take(rx, k),
                                  !.payloadDone = numBytes.ok /\ numBytes.val = 0]
          /\ IF ~numBytes.ok \/ bytearray_rejects(numBytes.val)
             THEN Goto(Raise("ValueError", <<>>, tx))
             ELSE Goto(Ctl(SetTop([Top EXCEPT
                                     !.pc = IF numBytes.val = 0 THEN "term" ELSE "payload",
                                     !.numBytes = numBytes.val,
                                     !.rawData = Zeros(numBytes.val),
                                     !.off = 0]),
                           NoRet, outcome, sockTimeout, tx))
    /\ UNCHANGED <<callers, mutex, globalErrCheck, timeout, sock, instId, opsLimit, inflight, op, log, nOps, nErr, nCuts>>

\* the buffer is not advanced: every receive stores at the start of rawData
payload_recv_unsliced ==
    /\ ~Idle
    /\ Top.fn = "query_binary_values" /\ Top.pc = "payload"
    /\ rx # <<>>
    /\ LET bytesRecv == Min(Top.numBytes, Len(rx))
           rawData == [i \in 1..Len(Top.rawData) |->
                          IF i <= bytesRecv THEN rx[i] ELSE Top.rawData[i]]
           numBytes == Top.numBytes - bytesRecv
       IN /\ rx' = Drop(rx, bytesRecv)
          /\ hist' = [hist EXCEPT !.payloadDone = numBytes = 0]
          /\ Goto(Ctl(SetTop([Top EXCEPT !.rawData = rawData,
                                         !.off = @ + bytesRecv,
                                         !.numBytes = numBytes,
                                         !.pc = IF numBytes = 0 THEN "term" ELSE "payload"]),
                      NoRet, outcome, sockTimeout, tx))
    /\ UNCHANGED <<callers, mutex, globalErrCheck, timeout, sock, instId, opsLimit, inflight, op, log, nOps, nErr, nCuts>>

\* bytesRecv = self.socket.recv_into(buf, numBytes); buf = buf[bytesRecv:];
\* numBytes -= bytesRecv
payload_recv ==
    /\ ~Idle
    /\ Top.fn = "query_binary_values" /\ Top.pc = "payload"
    /\ rx # <<>>
    /\ LET bytesRecv == Min(Top.numBytes, Len(rx))
           rawData == [i \in 1..Len(Top.rawData) |->
                          IF i > Top.off /\ i <= Top.off + bytesRecv
                          THEN rx[i - Top.off] ELSE Top.rawData[i]]
           numBytes == Top.numBytes - bytesRecv
       IN /\ rx' = Drop(rx, bytesRecv)
          /\ hist' = [hist EXCEPT !.payloadDone = numBytes = 0]
          /\ Goto(Ctl(SetTop([Top EXCEPT !.rawData = rawData,
                                         !.off = @ + bytesRecv,
                                         !.numBytes = numBytes,
                                         !.pc = IF numBytes = 0 THEN "term" ELSE "payload"]),
                      NoRet, outcome, sockTimeout, tx))
    /\ UNCHANGED <<callers, mutex, globalErrCheck, timeout, sock, instId, opsLimit, inflight, op, log, nOps, nErr, nCuts>>

\* term = self.socket.recv(1); the automatic check; the return
term_recv ==
    /\ ~Idle
    /\ Top.fn = "query_binary_values" /\ Top.pc = "term"
    /\ rx # <<>>
    /\ rx' = Tail(rx)
    /\ IF Head(rx) # NL
       THEN /\ Goto(Raise("BinblockError", <<>>, tx))
            /\ hist' = [hist EXCEPT !.term = <<Head(rx)>>]
       ELSE IF auto_check(Top.errCheck)
       THEN /\ Goto(call_err_check(SetTop([Top EXCEPT !.pc = "auto_err_check"]), tx))
            /\ hist' = [hist EXCEPT !.term = <<Head(rx)>>, !.autoChecks = @ + 1]
       ELSE /\ Goto(qbv_return(Top))
            /\ hist' = [hist EXCEPT !.term = <<Head(rx)>>]
    /\ UNCHANGED <<callers, mutex, globalErrCheck, timeout, sock, instId, opsLimit, inflight, op, log, nOps, nErr, nCuts>>

\* socket.timeout raised by a receive that no handler encloses
recv_timeout ==
    /\ ~Idle
    /\ Top.fn = "query_binary_values" /\ Top.pc \in {"digit", "count", "payload", "term"}
    /\ rx = <<>>
    /\ Goto(Raise("timeout", <<>>, tx))
    /\ hist' = [hist EXCEPT !.timeouts = @ + 1, !.termTimeout = Top.pc = "term"]
    /\ UNCHANGED <<callers, mutex, globalErrCheck, timeout, sock, instId, opsLimit, rx, inflight, op, log, nOps, nErr, nCuts>>

\* ----------------------------------------------------------- binblock_header
\* the sizes (memoryview(data).nbytes) of the arrays handed to the static
\* method binblock_header: those of the payloads, and sizes around the limit
HeaderSizes ==
    {Len(d) : d \in Payloads}
        \cup {MaxBinblockBytes - 1, MaxBinblockBytes, MaxBinblockBytes + 1}

\* SocketInstrument.binblock_header(data) called by the program; of data
\* only its nbytes matters, and op.data holds that number
binblock_header_call(numBytes) ==
    /\ Begin("binblock_header", IntCmd, FALSE, "", numBytes)
    /\ hist' = NewHist
    /\ LET header == binblock_header(numBytes) IN
       IF ~header.ok
       THEN Goto(Raise("BinblockError", <<>>, <<>>))
       ELSE Goto(Return(header.text, <<>>))
    /\ UNCHANGED <<callers, mutex, globalErrCheck, timeout, sock, instId, opsLimit, rx, inflight, nErr, nCuts>>

\* ----------------------------------------------------- write_binary_values
write_binary_values(cmd, data, errCheck) ==
    /\ Begin("write_binary_values", cmd, errCheck, "", data)
    /\ LET header == binblock_header(nbytes(data)) IN
       IF ~header.ok
       THEN /\ Goto(Raise("BinblockError", <<>>, <<>>))
            /\ hist' = NewHist
       ELSE IF ~isinstance_str(cmd)
       THEN /\ Goto(Raise("AttributeError", <<>>, <<>>))
            /\ hist' = NewHist
       ELSE IF sock = "closed"
       THEN /\ Goto(Raise("OSError", <<>>, <<>>))
            /\ hist' = NewHist
       ELSE LET t == <<cmd.text, header.text, data, <<NL>>>> IN
            IF auto_check(errCheck)
            THEN /\ Goto(call_err_check(<<Frame("write_binary_values", "err_check")>>, t))
                 /\ hist' = [NewHist EXCEPT !.autoChecks = 1]
            ELSE /\ Goto(Return(<<>>, t))
                 /\ hist' = NewHist
    /\ UNCHANGED <<callers, mutex, globalErrCheck, timeout, sock, instId, opsLimit, rx, inflight, nErr, nCuts>>

\* ------------------------------------------------------ __init__ and close
\* the texts handed to the constructor as ipAddress: '127.0.0.1', and the
\* ones the tests expect to be refused
\* '127.0.0.1'
HostLocal == <<49, 50, 55, DOT, 48, DOT, 48, DOT, 49>>
\* 'five'
HostName == <<102, 105, 118, 101>>
\* '127.0.0.257'
HostOctet257 == <<49, 50, 55, DOT, 48, DOT, 48, DOT, 50, 53, 55>>
\* '127.0.0.1 '
HostTrailingSpace == <<49, 50, 55, DOT, 48, DOT, 48, DOT, 49, 32>>
\* '127.0 .0.1'
HostInnerSpace == <<49, 50, 55, DOT, 48, 32, DOT, 48, DOT, 49>>
\* '127.0.0.0.0.0.1'
HostSevenOctets == <<49, 50, 55, DOT, 48, DOT, 48, DOT, 48, DOT, 48, DOT, 48, DOT, 49>>
Hosts == {HostLocal, HostName, HostOctet257, HostTrailingSpace, HostInnerSpace, HostSevenOctets}

\* s.split(ch)
Fields(s, ch) ==
    LET seps == {i \in 1..Len(s) : s[i] = ch}
        sep(k) == CHOOSE i \in seps : Cardinality({j \in seps : j < i}) = k - 1
        n == Cardinality(seps) + 1
    IN [k \in 1..n |-> SubSeq(s, IF k = 1 THEN 1 ELSE sep(k - 1) + 1,
                                 IF k = n THEN Len(s) ELSE sep(k) - 1)]

\* an octet of a dotted quad: one to three decimal digits, no leading zero,
\* at most 255
IsOctet(t) ==
    /\ t # <<>> /\ Len(t) <= 3
    /\ \A i \in 1..Len(t) : IsDigit(t[i])
    /\ Len(t) > 1 => t[1] # 48
    /\ DigitsVal(t) <= 255

\* ipaddress.IPv4Address(address) raises: address is not four octets
\* separated by dots
IPv4Address_rejects(address) ==
    LET octets == Fields(address, DOT)
    IN ~(Len(octets) = 4 /\ \A i \in 1..4 : IsOctet(octets[i]))

\* ipaddress.IPv6Address(address) raises for every text with fewer than two
\* colons; the texts of Hosts hold none
IPv6Address_rejects(address) ==
    Cardinality({i \in 1..Len(address) : address[i] = COLON}) < 2

ip_address_accepts_all(address) == FALSE

\* ipaddress.ip_address(address) raises ValueError: address is neither an
\* IPv4 nor an IPv6 address
ip_address_rejects(address) ==
    IPv4Address_rejects(address) /\ IPv6Address_rejects(address)

\* SocketInstrument(ipAddress, globalErrCheck=gec): the address is validated,
\* the attributes are set, the socket is created, its timeout set, it is
\* connected (connect raises when the peer cannot be reached) and
\* self.query('*idn?', errCheck=False) is under way; verboseErrCheck has its
\* default, False
SocketInstrument(ipAddress, gec, connects) ==
    /\ Begin("__init__", StrCmd(ipAddress), FALSE, "", <<>>)
    /\ hist' = NewHist
    /\ IF ip_address_rejects(ipAddress)
       THEN /\ Goto(Raise("ValueError", <<>>, <<>>))
            /\ UNCHANGED <<globalErrCheck, timeout, sock>>
       ELSE /\ globalErrCheck' = gec
            /\ timeout' = DefaultTimeout
            /\ IF ~connects
               THEN /\ Goto(Ctl(<<>>, NoRet, [kind |-> "OSError", val |-> <<>>],
                                DefaultTimeout, <<>>))
                    /\ sock' = "unconnected"
               ELSE /\ Goto(Ctl(<<Frame("__init__", "idn"), ErrQueryFrame>>, NoRet,
                                outcome, DefaultTimeout, <<CmdIdn \o <<NL>>>>))
                    /\ sock' = "open"
    /\ UNCHANGED <<callers, mutex, instId, opsLimit, rx, inflight, nErr, nCuts>>

\* the identity is not stored
init_resume_forgets ==
    /\ ~Idle
    /\ Top.fn = "__init__" /\ ret.kind = "value"
    /\ instId' = instId
    /\ Goto(Return(<<>>, tx))
    /\ UNCHANGED <<callers, mutex, globalErrCheck, timeout, sock, opsLimit, rx, inflight,
                   op, log, hist, nOps, nErr, nCuts>>

\* self.instId = <what query returned>; the constructor returns
init_resume ==
    /\ ~Idle
    /\ Top.fn = "__init__" /\ ret.kind = "value"
    /\ instId' = ret.val
    /\ Goto(Return(<<>>, tx))
    /\ UNCHANGED <<callers, mutex, globalErrCheck, timeout, sock, opsLimit, rx, inflight,
                   op, log, hist, nOps, nErr, nCuts>>

\* shutdown without close: the socket stays open
close_shutdown_only(name) ==
    /\ Begin(name, IntCmd, FALSE, "", <<>>)
    /\ hist' = NewHist
    /\ Goto(Return(<<>>, <<>>)) /\ sock' = sock
    /\ UNCHANGED <<callers, mutex, globalErrCheck, timeout, instId, opsLimit, rx, inflight,
                   nErr, nCuts>>

\* close(), called by its name or through disconnect(): shutdown and close of
\* the socket; shutdown raises OSError on a socket that is closed already
close(name) ==
    /\ Begin(name, IntCmd, FALSE, "", <<>>)
    /\ hist' = NewHist
    /\ IF sock = "closed"
       THEN Goto(Raise("OSError", <<>>, <<>>)) /\ sock' = sock
       ELSE Goto(Return(<<>>, <<>>)) /\ sock' = "closed"
    /\ UNCHANGED <<callers, mutex, globalErrCheck, timeout, instId, opsLimit, rx, inflight,
                   nErr, nCuts>>

\* read() called by the program: the loop of recv is entered; recv raises
\* OSError on a closed socket
read ==
    /\ Begin("read", IntCmd, FALSE, "", <<>>)
    /\ hist' = NewHist
    /\ IF sock = "closed"
       THEN Goto(Raise("OSError", <<>>, <<>>))
       ELSE Goto(Ctl(<<Frame("read", "read")>>, NoRet, outcome, sockTimeout, <<>>))
    /\ UNCHANGED <<callers, mutex, globalErrCheck, timeout, sock, instId, opsLimit, rx,
                   inflight, nErr, nCuts>>

\* socket.timeout raised by a recv of read() when the program called it: no
\* handler encloses it
read_raises_timeout ==
    /\ ~Idle
    /\ Top.fn = "read" /\ Top.pc = "read"
    /\ rx = <<>>
    /\ Goto(Raise("timeout", <<>>, tx))
    /\ hist' = [hist EXCEPT !.timeouts = @ + 1]
    /\ UNCHANGED <<callers, mutex, globalErrCheck, timeout, sock, instId, opsLimit, rx,
                   inflight, op, log, nOps, nErr, nCuts>>

\* ------------------------------------------------------- peer and network
\* the replies the instrument may give to the oldest command it owes one
\* for; its error queue holds ErrReplyA, ErrReplyB, ... in this order, as far
\* as it holds anything
Replies(kind) ==
    CASE kind = "err" -> IF nErr >= MaxErrors THEN {NoErrorReply}
                         ELSE IF nErr % 2 = 0 THEN {NoErrorReply, ErrReplyA}
                         ELSE {NoErrorReply, ErrReplyB}
      [] kind = "text" -> TextReplies
      [] kind = "idn" -> {IdnReply}
      [] kind = "bin" -> Frames

\* the ways to cut n bytes into at most c + 1 segments: the rising cut points
RECURSIVE CutSeqs(_, _)
CutSeqs(n, c) ==
    IF c = 0 THEN {<<>>}
    ELSE LET prev == CutSeqs(n, c - 1) IN
         prev \cup {Append(s, k) : s \in {q \in prev : Len(q) = c - 1},
                                   k \in 1..(n - 1)}

Rising(s) == \A i \in 1..(Len(s) - 1) : s[i] < s[i + 1]

RECURSIVE Split(_, _, _)
Split(m, cuts, from) ==
    IF cuts = <<>> THEN <<Drop(m, from)>>
    ELSE <<SubSeq(m, from + 1, Head(cuts))>> \o Split(m, Tail(cuts), Head(cuts))

\* the instrument sends a reply while the client waits for bytes; the network
\* carries it in the segments the cut points make
peer_reply(m, cuts) ==
    /\ Blocked
    /\ owed # <<>>
    /\ m \in Replies(Head(owed))
    /\ Rising(cuts)
    /\ nCuts + Len(cuts) <= MaxCuts
    /\ nCuts' = nCuts + Len(cuts)
    /\ owed' = Tail(owed)
    /\ nErr' = IF m \in {ErrReplyA, ErrReplyB} THEN nErr + 1 ELSE nErr
    /\ inflight' = inflight \o Split(m, cuts, 0)
    /\ hist' = [hist EXCEPT !.fed = Append(@, m)]
    /\ UNCHANGED <<callers, mutex, wire, nShort,
                   globalErrCheck, timeout, sock, instId, opsLimit, sockTimeout, stack, ret, outcome, rx, tx,
                   op, log, nOps>>

\* the instrument gives no reply to the oldest command it owes one for (it
\* did not accept the command)
peer_skip ==
    /\ Blocked
    /\ owed # <<>>
    /\ owed' = Tail(owed)
    /\ UNCHANGED <<callers, mutex, wire, nShort,
                   globalErrCheck, timeout, sock, instId, opsLimit, sockTimeout, stack, ret, outcome, rx,
                   inflight, tx, op, log, hist, nOps, nErr, nCuts>>

\* the next segment arrives while the client waits for bytes
deliver ==
    /\ Blocked
    /\ inflight # <<>>
    /\ rx' = rx \o Head(inflight)
    /\ inflight' = Tail(inflight)
    /\ UNCHANGED <<callers, mutex, wire, nShort,
                   globalErrCheck, timeout, sock, instId, opsLimit, sockTimeout, stack, ret, outcome, tx,
                   op, log, hist, nOps, owed, nErr, nCuts>>

\* the peer closes the connection, at any moment, part-way through a reply
\* too: of the segments that are under way the first k arrive still, the
\* others were never sent, and it sends nothing more
peer_close ==
    /\ sock = "open"
    /\ sock' = "peer_closed"
    /\ \E k \in 0..Len(inflight) : inflight' = Take(inflight, k)
    /\ UNCHANGED <<callers, mutex, wire, nShort,
                   globalErrCheck, timeout, instId, opsLimit, sockTimeout, stack, ret, outcome, rx,
                   tx, op, log, hist, nOps, owed, nErr, nCuts>>

\* a receive returns zero bytes: the peer has closed the connection and
\* every byte it sent has been received
AtEof == sock = "peer_closed" /\ rx = <<>> /\ inflight = <<>>

\* read(): self.socket.recv(1024) returns b''; response is what it was, it
\* does not end in a newline, and the loop goes on
read_recv_eof ==
    /\ ~Idle
    /\ Top.fn \in {"query", "read"} /\ Top.pc = "read"
    /\ AtEof
    /\ LET response == Top.response \o <<>> IN
       /\ (IF response = <<>> THEN TRUE ELSE Last(response) # NL)
       /\ Goto(Ctl(SetTop([Top EXCEPT !.response = response]), NoRet,
                   outcome, sockTimeout, tx))
    /\ hist' = [hist EXCEPT !.eof = TRUE]
    /\ UNCHANGED <<callers, mutex, globalErrCheck, timeout, sock, instId, opsLimit, rx,
                   inflight, op, log, nOps, nErr, nCuts>>

\* the payload loop: self.socket.recv_into(buf, numBytes) returns 0; buf and
\* numBytes are what they were, and the loop goes on
payload_recv_eof ==
    /\ ~Idle
    /\ Top.fn = "query_binary_values" /\ Top.pc = "payload"
    /\ AtEof
    /\ LET bytesRecv == 0
           numBytes == Top.numBytes - bytesRecv
       IN Goto(Ctl(SetTop([Top EXCEPT !.off = @ + bytesRecv,
                                      !.numBytes = numBytes,
                                      !.pc = IF numBytes = 0 THEN "term" ELSE "payload"]),
                   NoRet, outcome, sockTimeout, tx))
    /\ hist' = [hist EXCEPT !.eof = TRUE]
    /\ UNCHANGED <<callers, mutex, globalErrCheck, timeout, sock, instId, opsLimit, rx,
                   inflight, op, log, nOps, nErr, nCuts>>

\* a receive of the header or of the terminator returns b'': b'' is neither
\* b'#' nor b'\n' (BinblockError), and int('') raises ValueError
header_recv_eof ==
    /\ ~Idle
    /\ Top.fn = "query_binary_values" /\ Top.pc \in {"hash", "digit", "count", "term"}
    /\ AtEof
    /\ IF Top.pc \in {"hash", "term"}
       THEN Goto(Raise("BinblockError", <<>>, tx))
       ELSE Goto(Raise("ValueError", <<>>, tx))
    /\ hist' = [hist EXCEPT !.eof = TRUE]
    /\ UNCHANGED <<callers, mutex, globalErrCheck, timeout, sock, instId, opsLimit, rx,
                   inflight, op, log, nOps, nErr, nCuts>>

\* the cut points the network may put into a reply: a frame or the reply to
\* '*opc?' travels in up to MaxCuts + 1 segments, the responses to the error
\* query in one
CutsOf(m) == IF m \in Frames \cup TextReplies \cup {IdnReply} THEN CutSeqs(Len(m), MaxCuts) ELSE {<<>>}

\* the replies the instrument may ever give
AllReplies == {NoErrorReply, ErrReplyA, ErrReplyB, IdnReply} \cup TextReplies \cup Frames

Next ==
    \/ \E cmd \in WriteCmds, errCheck \in BOOLEAN : write(cmd, errCheck)
    \/ write_return
    \/ \E cmd \in QueryCmds, errCheck \in BOOLEAN : query(cmd, errCheck)
    \/ read_recv
    \/ read_timeout
    \/ query_resume
    \/ err_check
    \/ err_check_resume
    \/ \E cmd \in BinQueryCmds, datatype \in DataTypes, errCheck \in BOOLEAN :
           query_binary_values(cmd, datatype, errCheck)
    \/ hash_recv
    \/ hash_timeout
    \/ qbv_resume
    \/ digit_recv
    \/ count_recv
    \/ payload_recv
    \/ term_recv
    \/ recv_timeout
    \/ \E numBytes \in HeaderSizes : binblock_header_call(numBytes)
    \/ read
    \/ read_raises_timeout
    \/ \E cmd \in BinWriteCmds, data \in Payloads \cup {HugeArray}, errCheck \in BOOLEAN :
           write_binary_values(cmd, data, errCheck)
    \/ \E m \in AllReplies : \E cuts \in CutsOf(m) : peer_reply(m, cuts)
    \/ peer_skip
    \/ deliver

Spec == Init /\ [][Next]_vars


\* ------------------------------------------- an instrument that answers
\* write, query and err_check on a connection whose instrument answers every
\* query it is given before the socket timeout elapses: no receive times out
\* and no command goes unanswered. The client thread runs on whenever it can
\* (a response to handle, bytes to receive), the instrument sends the reply it
\* owes, and the network delivers what is in flight.
ClientStep == write_return \/ read_recv \/ query_resume \/ err_check_resume

NextAnswered ==
    \/ \E cmd \in WriteCmds, errCheck \in BOOLEAN : write(cmd, errCheck)
    \/ write_return
    \/ \E cmd \in QueryCmds, errCheck \in BOOLEAN : query(cmd, errCheck)
    \/ read_recv
    \/ query_resume
    \/ err_check
    \/ err_check_resume
    \/ \E m \in AllReplies : \E cuts \in CutsOf(m) : peer_reply(m, cuts)
    \/ deliver

SpecAnswered ==
    /\ Init /\ [][NextAnswered]_vars
    /\ WF_vars(ClientStep)
    /\ WF_vars(\E m \in AllReplies : \E cuts \in CutsOf(m) : peer_reply(m, cuts))
    /\ WF_vars(deliver)

\* ------------------------------------------------- the life of a connection
\* A program constructs the object, makes up to MaxSessionOps calls in all
\* (write, read, query, close, disconnect) and the instrument answers every
\* query it is given before the socket timeout elapses: a receive times out
\* only when the instrument owes no reply and nothing is in flight.
InitSession ==
    /\ globalErrCheck = FALSE
    /\ timeout = DefaultTimeout
    /\ sockTimeout = DefaultTimeout
    /\ stack = <<>>
    /\ ret = NoRet
    /\ outcome = NoOutcome
    /\ rx = <<>>
    /\ inflight = <<>>
    /\ tx = <<>>
    /\ op = NoOp
    /\ hist = NoHist
    /\ nOps = 0
    /\ owed = <<>>
    /\ nErr = 0
    /\ nCuts = 0
    /\ wire = <<>>
    /\ nShort = 0
    /\ callers = <<>>
    /\ mutex = FALSE
    /\ sock = "none"
    /\ instId = <<>>
    /\ opsLimit = MaxSessionOps
    /\ log = <<>>

SessionWriteCmds == {StrCmd(CmdIdn), StrCmd(CmdOpc)}
SessionQueryCmds == {StrCmd(CmdIdn), StrCmd(CmdOpc), IntCmd}

NothingComing == owed = <<>> /\ inflight = <<>>

NextSession ==
    \/ \E ipAddress \in Hosts, gec \in BOOLEAN, connects \in BOOLEAN :
           SocketInstrument(ipAddress, gec, connects)
    \/ init_resume
    \/ \E name \in {"close", "disconnect"} : close(name)
    \/ \E cmd \in SessionWriteCmds, errCheck \in BOOLEAN : write(cmd, errCheck)
    \/ write_return
    \/ read
    \/ \E cmd \in SessionQueryCmds, errCheck \in BOOLEAN : query(cmd, errCheck)
    \/ read_recv
    \/ NothingComing /\ read_timeout
    \/ NothingComing /\ read_raises_timeout
    \/ query_resume
    \/ err_check_resume
    \/ \E m \in AllReplies : \E cuts \in CutsOf(m) : peer_reply(m, cuts)
    \/ deliver

SpecSession == InitSession /\ [][NextSession]_vars

\* ------------------------------------------- a peer that closes the connection
\* One call on a connection whose instrument answers every query it is given
\* before the socket timeout elapses, as long as it has not closed the
\* connection, which it may do at any moment. A receive times out only while
\* the connection is open, no reply is owed and nothing is in flight. The
\* client thread runs on whenever it can, the instrument sends the reply it
\* owes, and the network delivers what is in flight.
ClientStepPeerCloses ==
    \/ write_return \/ read_recv \/ query_resume \/ err_check_resume
    \/ hash_recv \/ qbv_resume \/ digit_recv \/ count_recv \/ payload_recv \/ term_recv
    \/ read_recv_eof \/ payload_recv_eof \/ header_recv_eof

Quiet == sock = "open" /\ NothingComing

NextPeerCloses ==
    \/ \E cmd \in WriteCmds, errCheck \in BOOLEAN : write(cmd, errCheck)
    \/ write_return
    \/ read
    \/ \E cmd \in QueryCmds, errCheck \in BOOLEAN : query(cmd, errCheck)
    \/ read_recv
    \/ query_resume
    \/ err_check
    \/ err_check_resume
    \/ \E cmd \in BinQueryCmds, datatype \in DataTypes, errCheck \in BOOLEAN :
           query_binary_values(cmd, datatype, errCheck)
    \/ hash_recv
    \/ qbv_resume
    \/ digit_recv
    \/ count_recv
    \/ payload_recv
    \/ term_recv
    \/ Quiet /\ read_timeout
    \/ Quiet /\ read_raises_timeout
    \/ Quiet /\ hash_timeout
    \/ Quiet /\ recv_timeout
    \/ read_recv_eof
    \/ payload_recv_eof
    \/ header_recv_eof
    \/ \E m \in AllReplies : \E cuts \in CutsOf(m) : sock = "open" /\ peer_reply(m, cuts)
    \/ deliver
    \/ peer_close

SpecPeerCloses ==
    /\ Init /\ [][NextPeerCloses]_vars
    /\ WF_vars(ClientStepPeerCloses)
    /\ WF_vars(\E m \in AllReplies : \E cuts \in CutsOf(m) : sock = "open" /\ peer_reply(m, cuts))
    /\ WF_vars(deliver)

\* ------------------------------------------- callers sharing a connection
\* Two threads of the program call query(cmd, errCheck=False) on the same
\* SocketInstrument, one call each; every send and every recv is a step of
\* its own, and nothing in the class orders the steps of different threads.
\* The instrument answers the command lines in the order it receives them,
\* in time for no receive to time out.
CallerIds == {1, 2}
CallerCmds == {CmdOpcQ, ErrQueryCmd}

NoCaller == [pc |-> "idle", cmd |-> <<>>, response |-> <<>>, result |-> <<>>,
             reply |-> <<>>]

InitCallers ==
    /\ globalErrCheck = FALSE
    /\ timeout = DefaultTimeout
    /\ sockTimeout = DefaultTimeout
    /\ stack = <<>>
    /\ ret = NoRet
    /\ outcome = NoOutcome
    /\ rx = <<>>
    /\ inflight = <<>>
    /\ tx = <<>>
    /\ op = NoOp
    /\ hist = NoHist
    /\ nOps = 0
    /\ owed = <<>>
    /\ nErr = 0
    /\ nCuts = 0
    /\ wire = <<>>
    /\ nShort = 0
    /\ callers = [thread |-> [i \in CallerIds |-> NoCaller], asked |-> <<>>]
    /\ mutex \in BOOLEAN
    /\ sock = "open"
    /\ instId = IdnText
    /\ opsLimit = MaxOps
    /\ log = <<>>

\* thread i calls query: both checks pass and write sends the command; where
\* the threads use a lock around their calls, i has taken it
caller_query(i, cmd) ==
    /\ callers.thread[i].pc = "idle"
    /\ mutex => \A j \in CallerIds : callers.thread[j].pc # "read"
    /\ ~query_rejects(StrCmd(cmd))
    /\ tx' = Append(tx, cmd \o <<NL>>)
    /\ wire' = wire \o cmd \o <<NL>>
    /\ owed' = owed \o ReplyKinds(<<cmd \o <<NL>>>>)
    /\ callers' = [callers EXCEPT !.thread[i].pc = "read", !.thread[i].cmd = cmd,
                                  !.asked = Append(@, i)]
    /\ UNCHANGED <<globalErrCheck, timeout, sock, instId, opsLimit, sockTimeout, stack, ret, outcome, rx,
                   inflight, op, log, hist, nOps, nErr, nCuts, nShort, mutex>>

\* the first recv returns the response whether or not a newline ends it
caller_recv_once(i) ==
    /\ callers.thread[i].pc = "read"
    /\ rx # <<>>
    /\ LET k == Min(RecvBufSize, Len(rx))
           response == callers.thread[i].response \o Take(rx, k)
       IN /\ rx' = Drop(rx, k)
          /\ callers' = [callers EXCEPT !.thread[i].response = response,
                                        !.thread[i].pc = "done",
                                        !.thread[i].result = strip(response)]
    /\ UNCHANGED <<globalErrCheck, timeout, sock, instId, opsLimit, sockTimeout, stack, ret, outcome,
                   inflight, tx, op, log, hist, nOps, owed, nErr, nCuts, wire, nShort,
                   mutex>>

\* read() in thread i: one self.socket.recv(1024) of the loop; when the
\* response ends with a newline, query returns it stripped (and the lock, if
\* any, is released)
caller_recv(i) ==
    /\ callers.thread[i].pc = "read"
    /\ rx # <<>>
    /\ LET k == Min(RecvBufSize, Len(rx))
           response == callers.thread[i].response \o Take(rx, k)
       IN /\ rx' = Drop(rx, k)
          /\ callers' = IF Last(response) # NL
                        THEN [callers EXCEPT !.thread[i].response = response]
                        ELSE [callers EXCEPT !.thread[i].response = response,
                                             !.thread[i].pc = "done",
                                             !.thread[i].result = strip(response)]
    /\ UNCHANGED <<globalErrCheck, timeout, sock, instId, opsLimit, sockTimeout, stack, ret, outcome,
                   inflight, tx, op, log, hist, nOps, owed, nErr, nCuts, wire, nShort,
                   mutex>>

\* the instrument answers the oldest command line it has not answered; the
\* reply is noted with the thread that sent the command
caller_reply(m, cuts) ==
    /\ owed # <<>>
    /\ m \in Replies(Head(owed))
    /\ Rising(cuts)
    /\ nCuts + Len(cuts) <= MaxCuts
    /\ nCuts' = nCuts + Len(cuts)
    /\ owed' = Tail(owed)
    /\ nErr' = IF m \in {ErrReplyA, ErrReplyB} THEN nErr + 1 ELSE nErr
    /\ inflight' = inflight \o Split(m, cuts, 0)
    /\ callers' = [callers EXCEPT !.thread[Head(callers.asked)].reply = m,
                                  !.asked = Tail(@)]
    /\ UNCHANGED <<globalErrCheck, timeout, sock, instId, opsLimit, sockTimeout, stack, ret, outcome, rx,
                   tx, op, log, hist, nOps, wire, nShort, mutex>>

\* the next segment arrives at the socket
caller_deliver ==
    /\ inflight # <<>>
    /\ rx' = rx \o Head(inflight)
    /\ inflight' = Tail(inflight)
    /\ UNCHANGED <<globalErrCheck, timeout, sock, instId, opsLimit, sockTimeout, stack, ret, outcome, tx,
                   op, log, hist, nOps, owed, nErr, nCuts, wire, nShort, callers, mutex>>

NextCallers ==
    \/ \E i \in CallerIds, cmd \in CallerCmds : caller_query(i, cmd)
    \/ \E i \in CallerIds : caller_recv(i)
    \/ \E m \in AllReplies : \E cuts \in CutSeqs(Len(m), MaxCuts) : caller_reply(m, cuts)
    \/ caller_deliver

SpecCallers == InitCallers /\ [][NextCallers]_vars

\* ------------------------------------------------------------------ claims
Done == Idle /\ op.name # "none"
Both == op.errCheck /\ globalErrCheck
AutoCheckOps == {"write", "query", "query_binary_values", "write_binary_values"}
HasQmark(t) == \E i \in 1..Len(t) : t[i] = QMARK
SentinelAt(R) == {i \in 1..Len(R) : IsNoError(normalize(R[i]))}
Least(S) == CHOOSE i \in S : \A j \in S : i <= j

\* C1: a frame that write_binary_values puts on the wire for a payload,
\* received by query_binary_values as 8-bit elements on a quiet connection
\* with no receive timing out and no automatic check, is decoded to the
\* byte-count of the payload and to the payload's bytes in their order.
C1_RoundTrip ==
    \A d \in Payloads :
        (/\ Done /\ op.name = "query_binary_values" /\ ItemSize(op.datatype) = 1
         /\ hist.clean /\ hist.fed = <<WireFrame(d)>>
         /\ hist.timeouts = 0 /\ ~Both)
        => /\ outcome.kind = "return"
           /\ hist.count = str(Len(d))
           /\ outcome.val = frombuffer(d, 1)

\* C2: whenever query_binary_values has returned or raised, the timeout in
\* effect on the socket is the connection's normal timeout.
C2_TimeoutRestored ==
    (Idle /\ op.name = "query_binary_values") => sockTimeout = timeout

\* C2 witness: query_binary_values has ended with the error that the err_check
\* of its header-timeout handler raised.
C2_Witness ==
    /\ Idle /\ op.name = "query_binary_values"
    /\ hist.hdrTimeout /\ outcome.kind = "SockInstError"

\* C3 as stated: with globalErrCheck or the call's errCheck disabled, write,
\* query, query_binary_values and write_binary_values invoke no err_check.
C3_NoCheckWhenDisabled ==
    (op.name \in AutoCheckOps /\ ~Both) => hist.autoChecks + hist.timeoutChecks = 0

\* C3 amended: the automatic err_check after the operation is made only when
\* both flags are enabled, and is made when both are enabled and the
\* operation returns; with a flag disabled err_check is invoked only after a
\* receive has timed out.
C3_AutoCheckPolicy ==
    op.name \in AutoCheckOps =>
        /\ hist.autoChecks > 0 => Both
        /\ (~Both /\ hist.timeouts = 0) => hist.autoChecks + hist.timeoutChecks = 0
        /\ (Done /\ outcome.kind = "return" /\ Both) => hist.autoChecks > 0

\* C3 witness: an operation with both flags enabled has made its automatic
\* check and returned.
C3_Witness ==
    /\ Done /\ op.name \in AutoCheckOps /\ Both
    /\ outcome.kind = "return" /\ hist.autoChecks = 1

\* C4: when err_check has ended, it has returned normally if the first
\* response to an error query was the no-error text; otherwise, if the
\* no-error text was received, it has raised SockInstError with the
\* normalized responses received before it, in their order.
C4_ErrCheckResult ==
    (Done /\ op.name = "err_check" /\ hist.responses # <<>>) =>
        LET R == hist.responses
            S == SentinelAt(R)
        IN IF 1 \in S THEN outcome.kind = "return"
           ELSE S # {} =>
                /\ outcome.kind = "SockInstError"
                /\ outcome.val = [i \in 1..(Least(S) - 1) |-> normalize(R[i])]

\* C5: an err_check that is handed a response ends, sending nothing more, if
\* the response holds the no-error text, and otherwise stays in its loop and
\* sends exactly one more error query; so no err_check in progress has a
\* response with the no-error text behind it.
C5_StopsAtSentinel ==
    /\ [](\A i \in 1..Len(stack) :
            stack[i].fn = "err_check" => SentinelAt(stack[i].seen) = {})
    /\ [][(~Idle /\ Top.fn = "err_check" /\ ret.kind = "value") =>
            IF IsNoError(normalize(ret.val))
            THEN /\ tx' = tx
                 /\ stack' \in {<<>>, Pop}
            ELSE /\ tx' = Append(tx, ErrQueryCmd \o <<NL>>)
                 /\ Len(stack') = Len(stack) + 1
                 /\ stack'[Len(stack)].fn = "err_check"
                 /\ stack'[Len(stack)].seen = Append(Top.seen, ret.val)]_vars

\* C5 witness: err_check has received an error entry and then the no-error
\* text, and has sent two error queries in all.
C5_Witness ==
    /\ Done /\ op.name = "err_check" /\ hist.timeouts = 0
    /\ Len(hist.responses) = 2
    /\ tx = <<ErrQueryCmd \o <<NL>>, ErrQueryCmd \o <<NL>>>>
    /\ outcome.kind = "SockInstError"

\* C6: once the receive of the first frame byte has timed out,
\* query_binary_values does not get past the err_check of its handler: it
\* reads no digit-count, byte-count or payload and returns no value.
C6_HeaderTimeoutFails ==
    (op.name = "query_binary_values" /\ hist.hdrTimeout) =>
        /\ ~Idle => stack[1].pc = "hdr_err_check"
        /\ Idle => outcome.kind # "return"

\* C7: when the digit-count byte received is not one of '1'..'9',
\* query_binary_values has failed with BinblockError.
C7_DigitCountRejected ==
    (op.name = "query_binary_values" /\ hist.digit # <<>> /\ hist.digit[1] \notin 49..57)
        => Idle /\ outcome.kind = "BinblockError"

\* C8: when query_binary_values has ended after a complete payload that was
\* not followed by a newline (another byte, or no byte), it has failed with
\* BinblockError.
C8_TerminatorChecked ==
    (/\ Done /\ op.name = "query_binary_values" /\ nCuts = 0 /\ inflight = <<>>
     /\ hist.payloadDone /\ hist.term # <<NL>>)
        => outcome.kind = "BinblockError"

\* C9: query called with a command that is not a str or holds no '?' has
\* failed with SockInstError, having sent nothing.
C9_QueryRejects ==
    (op.name = "query" /\ (~isinstance_str(op.cmd) \/ ~HasQmark(op.cmd.text)))
        => Idle /\ outcome.kind = "SockInstError" /\ tx = <<>>

\* C9 witness: query('*opc') has been called and has raised SockInstError.
C9_Witness ==
    /\ op.name = "query" /\ op.cmd = StrCmd(CmdOpc)
    /\ Idle /\ outcome.kind = "SockInstError"

\* C10 as stated: write and query_binary_values called with a command that is
\* not a str have failed with SockInstError.
C10_NonTextRejected ==
    (op.name \in {"write", "query_binary_values"} /\ ~isinstance_str(op.cmd))
        => Idle /\ outcome.kind = "SockInstError"

\* C10 amended: write called with a command that is not a str has failed with
\* SockInstError; query_binary_values called with one has failed with
\* SockInstError when the datatype is supported, with BinblockError when it
\* is not; nothing was sent.
C10_NonTextRejectedByKind ==
    (op.name \in {"write", "query_binary_values"} /\ ~isinstance_str(op.cmd))
        => /\ Idle /\ tx = <<>>
           /\ outcome.kind = IF op.name = "query_binary_values" /\ ItemSize(op.datatype) = 0
                             THEN "BinblockError" ELSE "SockInstError"

\* C10 witness: query_binary_values(19, datatype='d') has raised SockInstError.
C10_Witness ==
    /\ op.name = "query_binary_values" /\ op.cmd = IntCmd /\ op.datatype = "d"
    /\ Idle /\ outcome.kind = "SockInstError"

\* C11: binblock_header called for data of 10^9 bytes or more has raised
\* BinblockError and returned no header; and whatever write_binary_values has
\* sent after its command is the header binblock_header returned for its
\* data, which is below that size.
C11_HeaderLimit ==
    /\ (op.name = "binblock_header" /\ op.data >= MaxBinblockBytes)
           => Idle /\ outcome.kind = "BinblockError"
    /\ (op.name = "binblock_header" /\ op.data < MaxBinblockBytes)
           => /\ Idle /\ outcome.kind = "return"
              /\ outcome.val = <<HASH>> \o str(Len(str(op.data))) \o str(op.data)
    /\ (op.name = "write_binary_values" /\ Len(tx) >= 2)
           => /\ Len(op.data) < MaxBinblockBytes
              /\ binblock_header(Len(op.data)).ok
              /\ tx[2] = binblock_header(Len(op.data)).text

\* C11 witness: binblock_header has been called for data of exactly 10^9
\* bytes and has raised BinblockError.
C11_Witness ==
    /\ op.name = "binblock_header" /\ op.data = MaxBinblockBytes
    /\ Idle /\ outcome.kind = "BinblockError"

\* C12: when the receive of the first frame byte in query_binary_values
\* returns a byte other than '#', the operation ends at once with
\* BinblockError, sending nothing more and reading no further byte.
C12_NotHashRejected ==
    [][(/\ ~Idle /\ Top.fn = "query_binary_values" /\ Top.pc = "hash"
        /\ rx # <<>> /\ Head(rx) # HASH /\ rx' = Tail(rx))
       => /\ stack' = <<>> /\ outcome'.kind = "BinblockError"
          /\ tx' = tx /\ hist'.digit = <<>>]_vars

\* C12 witness: query_binary_values('*opc?') has received the text reply
\* '1' as its first byte and has raised BinblockError.
C12_Witness ==
    /\ Done /\ op.name = "query_binary_values" /\ op.cmd = StrCmd(CmdOpcQ)
    /\ hist.clean /\ hist.timeouts = 0 /\ hist.fed = <<TextReply>>
    /\ outcome.kind = "BinblockError"

\* C13: once the read inside query has timed out, query has ended with the
\* timeout and has sent nothing but its own command.
C13_QueryTimeoutSurfaces ==
    (op.name = "query" /\ hist.timeouts > 0)
        => /\ Idle /\ outcome.kind = "timeout"
           /\ tx = <<op.cmd.text \o <<NL>>>>

\* the text without the sign it starts with, if it starts with one
StripSign(s) == IF s # <<>> /\ s[1] \in {PLUS, MINUS} THEN Tail(s) ELSE s

\* C20: every entry of the list err_check has raised is the response it was
\* made from with the surrounding whitespace and the leading sign removed
\* and the rest of the text as received.
C20_EntriesSignStripped ==
    (/\ Done /\ op.name = "err_check" /\ hist.clean /\ hist.timeouts = 0
     /\ outcome.kind = "SockInstError")
        => \A i \in 1..Len(outcome.val) :
               outcome.val[i] = StripSign(strip(hist.responses[i]))

\* C18: query_binary_values called on a quiet connection with an element
\* kind of width w, answered with the frame of a payload of N bytes, w
\* dividing N, no receive timing out and no automatic check, has returned
\* N/w elements, element i made of payload bytes (i-1)*w+1 .. i*w in order.
C18_ElementsOfWidth ==
    \A d \in Payloads :
        (/\ Done /\ op.name = "query_binary_values"
         /\ ItemSize(op.datatype) > 0 /\ Len(d) % ItemSize(op.datatype) = 0
         /\ hist.clean /\ hist.fed = <<WireFrame(d)>>
         /\ hist.timeouts = 0 /\ ~Both)
        => LET w == ItemSize(op.datatype) IN
           /\ outcome.kind = "return"
           /\ Len(outcome.val) = Len(d) \div w
           /\ \A i \in 1..Len(outcome.val) :
                  outcome.val[i] = [j \in 1..w |-> d[(i - 1) * w + j]]

\* C19: query_binary_values answered on a quiet connection with the frame
\* '#10' and a newline, no receive timing out, has raised neither
\* BinblockError nor ValueError, and what it has returned is the empty
\* sequence; without the automatic check it has returned.
C19_EmptyFrame ==
    (/\ Done /\ op.name = "query_binary_values"
     /\ hist.clean /\ hist.timeouts = 0
     /\ hist.fed # <<>> /\ hist.fed[1] = FrameEmpty)
        => /\ outcome.kind \in {"return", "SockInstError"}
           /\ outcome.kind = "SockInstError" => Both
           /\ outcome.kind = "return" => outcome.val = <<>>

\* C19 witness: the frame '#10' and a newline has been decoded and
\* query_binary_values has returned.
C19_Witness ==
    /\ Done /\ op.name = "query_binary_values"
    /\ hist.clean /\ hist.timeouts = 0 /\ hist.fed = <<FrameEmpty>>
    /\ hist.count = <<48>> /\ hist.term = <<NL>>
    /\ outcome.kind = "return" /\ outcome.val = <<>>

\* C15: query called on a quiet connection and answered with '1' and a
\* newline, bare or padded with whitespace, in one segment or in several,
\* no receive timing out, has sent its command followed by a newline, and
\* what it has returned is the text '1'; it has raised nothing but the
\* error list of an automatic check.
C15_QueryReturnsReply ==
    (/\ Done /\ op.name = "query" /\ hist.clean /\ hist.timeouts = 0
     /\ hist.fed # <<>> /\ hist.fed[1] \in TextReplies)
        => /\ Take(wire, Len(op.cmd.text) + 1) = op.cmd.text \o <<NL>>
           /\ outcome.kind \in {"return", "SockInstError"}
           /\ outcome.kind = "SockInstError" => Both
           /\ outcome.kind = "return" => outcome.val = <<49>>

\* C15 witness: the padded reply has arrived in two segments and query has
\* returned '1'.
C15_Witness ==
    /\ Done /\ op.name = "query" /\ hist.clean /\ hist.timeouts = 0
    /\ hist.fed = <<TextReplyPadded>> /\ nCuts = 1
    /\ outcome.kind = "return" /\ outcome.val = <<49>>

\* C16: once write has been called with a str, the bytes on the wire start
\* with the bytes of the command and one newline, complete, and any error
\* query comes after them.
C16_WriteTransmitsAll ==
    (op.name = "write" /\ isinstance_str(op.cmd))
        => LET msg == op.cmd.text \o <<NL>> IN
           /\ Len(wire) >= Len(msg)
           /\ Take(wire, Len(msg)) = msg

\* C17: once write_binary_values has been called with a str command and a
\* payload below the size limit, the
\* bytes on the wire start with the command text, the header, the payload
\* and one newline, in this order with nothing between them, and any error
\* query comes after the newline.
C17_FrameOrder ==
    (op.name = "write_binary_values" /\ isinstance_str(op.cmd) /\ op.data \in Payloads)
        => LET frame == op.cmd.text \o WireFrame(op.data) IN
           /\ Len(wire) >= Len(frame)
           /\ Take(wire, Len(frame)) = frame
           /\ Drop(wire, Len(frame)) = Flat(Drop(tx, 4))

\* the threads that have sent their command and not yet returned
InRead == {i \in CallerIds : callers.thread[i].pc = "read"}

\* every query that has returned has returned the reply to its own command
OwnReplies ==
    \A i \in CallerIds :
        callers.thread[i].pc = "done"
            => /\ callers.thread[i].reply # <<>>
               /\ callers.thread[i].result = strip(callers.thread[i].reply)

\* C14 as stated: with two callers on a connection, no other query sends or
\* receives between a query's write and the end of its read, and every
\* query returns the reply to its own command.
C14_QueryAtomic ==
    /\ Cardinality(InRead) <= 1
    /\ OwnReplies

\* C14 amended: where the callers hold a lock around each query, no other
\* query sends or receives between a query's write and the end of its
\* read, and every query returns the reply to its own command.
C14_QueryAtomicUnderLock ==
    mutex => Cardinality(InRead) <= 1 /\ OwnReplies

\* C14 witness: under the lock both threads have made their query, with
\* different commands, and each has returned.
C14_Witness ==
    /\ mutex
    /\ \A i \in CallerIds : callers.thread[i].pc = "done"
    /\ callers.thread[1].cmd # callers.thread[2].cmd
    /\ callers.thread[1].result # callers.thread[2].result

\* the format characters of the ten element kinds: int8, uint8, int16, uint16,
\* int32 ('i', 'l'), uint32 ('I', 'L'), int64, uint64, float32, float64
SupportedKinds == {"b", "B", "h", "H", "i", "l", "I", "L", "q", "Q", "f", "d"}

\* C25: query_binary_values called with a datatype outside the ten supported
\* element kinds has failed with BinblockError, and has sent nothing.
C25_UnsupportedKindRejected ==
    (op.name = "query_binary_values" /\ op.datatype \notin SupportedKinds)
        => Idle /\ outcome.kind = "BinblockError" /\ tx = <<>> /\ wire = <<>>

\* C25 witness: query_binary_values('data?', datatype='r') has raised
\* BinblockError.
C25_Witness ==
    /\ op.name = "query_binary_values" /\ op.cmd = StrCmd(CmdData)
    /\ op.datatype = "r" /\ Idle /\ outcome.kind = "BinblockError"

\* the bytes the client has taken from the socket during the operation, when
\* the connection was quiet at its start: what the instrument sent, less what
\* is still in flight or waiting in the socket
Consumed ==
    LET sent == Flat(hist.fed)
    IN Take(sent, Len(sent) - Len(rx) - Len(Flat(inflight)))

\* C26: while query_binary_values runs its payload loop, and when the loop
\* has ended, the buffer has the size of the decoded byte-count, holds the
\* payload bytes received so far in their order of arrival from its start,
\* the rest being untouched, and the bytes received plus the bytes still to
\* receive make the byte-count; the loop has ended exactly when byte-count
\* bytes are stored, the terminator not being received yet; a terminator is
\* received only after the payload is complete.
C26_PayloadFilledInOrder ==
    /\ (/\ ~Idle /\ Len(stack) = 1 /\ Top.fn = "query_binary_values"
        /\ Top.pc \in {"payload", "term"} /\ hist.clean /\ ~hist.hdrTimeout)
       => LET got == Drop(Consumed, 2 + Len(hist.count)) IN
          /\ Len(Top.rawData) = int10(hist.count).val
          /\ Top.off + Top.numBytes = Len(Top.rawData)
          /\ Len(got) = Top.off
          /\ \A i \in 1..Len(Top.rawData) :
                 Top.rawData[i] = IF i <= Top.off THEN got[i] ELSE 0
          /\ (Top.pc = "term") = (Top.off = Len(Top.rawData))
    /\ (op.name = "query_binary_values" /\ hist.term # <<>>) => hist.payloadDone

\* C26 witness: a payload of 10 bytes is being received and a first partial
\* receive has stored some of them.
C26_Witness ==
    /\ ~Idle /\ Top.fn = "query_binary_values" /\ Top.pc = "payload"
    /\ hist.clean /\ ~hist.hdrTimeout
    /\ Len(Top.rawData) = 10 /\ Top.off > 0 /\ Top.numBytes > 0

\* C27: the byte-count field query_binary_values has consumed has as many
\* bytes as the digit-count of the header says.
C27_CountFieldWhole ==
    (op.name = "query_binary_values" /\ hist.count # <<>>)
        => Len(hist.count) = int16(hist.digit).val

\* C29: during query_binary_values, whenever the client is inside a receive
\* other than the one of the '#' byte, the socket's timeout is the normal
\* timeout of the connection.
C29_ShortTimeoutOnlyForHash ==
    (/\ op.name = "query_binary_values" /\ Blocked
     /\ ~(Top.fn = "query_binary_values" /\ Top.pc = "hash"))
        => sockTimeout = timeout

\* err_check is running: one of the frames of the call stack is its frame
ErrCheckRunning == \E i \in 1..Len(stack) : stack[i].fn = "err_check"

\* C21: when the instrument's error queue holds finitely many entries (at
\* most MaxErrors) before it yields the sentinel and the instrument answers
\* every error query, an err_check that is running, called by the program or
\* by the automatic check of write or query, eventually ends, and if it ends
\* the operation with an error, the error is SockInstError; the one exception
\* is an error query of which the socket accepted only a part, which the
\* instrument was never given.
C21_ErrCheckTerminates ==
    ErrCheckRunning ~>
        \/ ~ErrCheckRunning /\ (Idle => outcome.kind \in {"return", "SockInstError"})
        \/ nShort > 0

\* C21 witness: err_check called by the program has received two entries and
\* then the sentinel, and has raised SockInstError with the two entries.
C21_Witness ==
    /\ Done /\ op.name = "err_check" /\ nShort = 0
    /\ Len(hist.responses) = 3
    /\ outcome.kind = "SockInstError" /\ Len(outcome.val) = 2

\* the calls that have ended, the last one included
Ended ==
    IF Done
    THEN Append(log, [name |-> op.name, cmd |-> op.cmd, errCheck |-> op.errCheck,
                      kind |-> outcome.kind, val |-> outcome.val, wire |-> wire])
    ELSE log

\* the constructor has returned, write('*idn?') has been called next and has
\* put its command on the wire, and read() has been called after it
IdnWrittenThenRead ==
    /\ op.name = "read" /\ Len(log) = 2
    /\ log[1].name = "__init__" /\ log[1].kind = "return"
    /\ log[2].name = "write" /\ log[2].cmd = StrCmd(CmdIdn)
    /\ Len(log[2].wire) > Len(CmdIdn) /\ Take(log[2].wire, Len(CmdIdn) + 1) = CmdIdn \o <<NL>>

\* once the constructor has returned, '*idn?' and a newline is the one
\* message it has sent, and instId is the instrument's reply to it, stripped
IdentityCached ==
    (op.name = "__init__" /\ Idle /\ outcome.kind = "return")
        => /\ tx = <<CmdIdn \o <<NL>>>> /\ wire = CmdIdn \o <<NL>>
           /\ hist.fed # <<>> /\ instId = strip(hist.fed[1])

\* C22 as stated: the constructor that has returned has sent '*idn?' first
\* and has cached the reply as instId, and a read() that follows a later
\* write('*idn?') ends by returning instId.
C22_IdentityStable ==
    /\ IdentityCached
    /\ (IdnWrittenThenRead /\ Idle) => (outcome.kind = "return" /\ outcome.val = instId)

\* C22 amended: the same, for a write('*idn?') whose automatic error check
\* is not made (globalErrCheck or the call's errCheck is False).
C22_IdentityStableUnchecked ==
    /\ IdentityCached
    /\ (IdnWrittenThenRead /\ Idle /\ ~(log[2].errCheck /\ globalErrCheck))
           => (outcome.kind = "return" /\ outcome.val = instId)

\* C22 witness: after the constructor, write('*idn?') and read() have been
\* called and read() has returned the cached identity, 'K,1'.
C22_Witness ==
    /\ IdnWrittenThenRead /\ Idle /\ ~(log[2].errCheck /\ globalErrCheck)
    /\ outcome.kind = "return" /\ outcome.val = instId /\ instId = <<75, 44, 49>>

\* C23: the constructor called with a text other than '127.0.0.1' ('five',
\* '127.0.0.257', '127.0.0.1 ', '127.0 .0.1', '127.0.0.0.0.0.1') has raised
\* ValueError with no socket created, nothing connected and nothing sent.
C23_InvalidHostRejected ==
    (op.name = "__init__" /\ op.cmd.text # HostLocal)
        => /\ Idle /\ outcome.kind = "ValueError"
           /\ sock = "none" /\ tx = <<>> /\ wire = <<>>

\* C23 witness: SocketInstrument('127.0.0.1 ') has raised ValueError.
C23_Witness ==
    /\ op.name = "__init__" /\ op.cmd.text = HostTrailingSpace
    /\ Idle /\ outcome.kind = "ValueError" /\ sock = "none"

\* close() or disconnect() has returned
Closed ==
    \E i \in 1..Len(Ended) : Ended[i].name \in {"close", "disconnect"} /\ Ended[i].kind = "return"

\* C24 as stated: a query called after close() or disconnect() has failed with
\* OSError.
C24_ClosedQueryFailsOS ==
    (Closed /\ op.name = "query") => (Idle /\ outcome.kind = "OSError")

\* C24 amended: after close() or disconnect() the socket is closed and stays
\* closed whatever is called; a query called then has failed without sending
\* anything, with SockInstError when its command is not a str or has no '?',
\* with OSError otherwise; write and read called then have failed too.
C24_ClosedForGood ==
    /\ [](Closed => sock = "closed")
    /\ []((Closed /\ op.name = "query")
            => /\ Idle /\ tx = <<>> /\ wire = <<>>
               /\ outcome.kind = IF isinstance_str(op.cmd) /\ HasQmark(op.cmd.text)
                                 THEN "OSError" ELSE "SockInstError")
    /\ []((Closed /\ op.name \in {"write", "read"})
            => Idle /\ tx = <<>> /\ outcome.kind \in {"OSError", "SockInstError"})
    /\ [][sock = "closed" => sock' = "closed"]_vars

\* C24 witness: query('*idn?') called after disconnect() has raised OSError.
C24_Witness ==
    /\ Len(log) > 0 /\ log[Len(log)].name = "disconnect" /\ log[Len(log)].kind = "return"
    /\ op.name = "query" /\ op.cmd = StrCmd(CmdIdn)
    /\ Idle /\ outcome.kind = "OSError" /\ sock = "closed"

\* C28: no step of write, read, query, err_check, query_binary_values or
\* write_binary_values changes instId, globalErrCheck, timeout or the state
\* of the socket, and the timeout in effect on the socket differs from timeout
\* only while query_binary_values is running.
C28_FrameEffect ==
    /\ [][/\ instId' = instId /\ globalErrCheck' = globalErrCheck
          /\ timeout' = timeout /\ sock' = sock]_vars
    /\ [](sockTimeout # timeout => (~Idle /\ stack[1].fn = "query_binary_values"))

\* C28 witness: query_binary_values waits for the '#' byte under the header
\* timeout, the attributes being those the constructor set.
C28_Witness ==
    /\ ~Idle /\ Top.fn = "query_binary_values" /\ Top.pc = "hash"
    /\ sockTimeout = HeaderTimeout /\ timeout = DefaultTimeout
    /\ instId = <<75, 44, 49>> /\ sock = "open"

\* the calls that argument validation rejects
RejectedCall(o) ==
    \/ o.name \in {"write", "query"} /\ ~isinstance_str(o.cmd)
    \/ o.name = "query" /\ ~HasQmark(o.cmd.text)
    \/ o.name = "query_binary_values" /\ o.datatype \notin SupportedKinds
    \/ o.name = "write_binary_values" /\ o.data = HugeArray

\* C30: the step that makes a call which argument validation rejects ends
\* the call with SockInstError or BinblockError, puts nothing on the wire and
\* leaves the attributes, the socket, its timeout, the unread and in-flight
\* bytes and the instrument as they were.
C30_RejectedCallNoEffect ==
    [][(nOps' = nOps + 1 /\ RejectedCall(op'))
       => /\ stack' = <<>> /\ outcome'.kind \in {"SockInstError", "BinblockError"}
          /\ tx' = <<>> /\ wire' = <<>>
          /\ UNCHANGED <<globalErrCheck, timeout, sockTimeout, sock, instId,
                         rx, inflight, owed, nErr, nCuts, nShort>>]_vars

\* C30 witness: write_binary_values called with an array of 10^9 bytes has
\* raised BinblockError and has sent nothing.
C30_Witness ==
    /\ op.name = "write_binary_values" /\ op.data = HugeArray /\ isinstance_str(op.cmd)
    /\ Idle /\ outcome.kind = "BinblockError" /\ tx = <<>> /\ wire = <<>>

\* the err_check calls that are in progress: the frames of err_check on the
\* call stack
ErrCheckDepth == Cardinality({i \in 1..Len(stack) : stack[i].fn = "err_check"})

\* C31: at most one err_check is in progress at any time: no error query of
\* an err_check starts another err_check.
C31_ErrCheckNotReentered == ErrCheckDepth <= 1

\* C32: once a receive has returned zero bytes because the peer closed the
\* connection, the operation ends with an error.
C32_EofFails == hist.eof ~> (Idle /\ outcome.kind \notin {"none", "return"})

\* the instrument has sent one reply for every query line the socket was
\* given in the operation, and no receive of the operation has timed out
AnsweredEach ==
    /\ hist.clean /\ hist.timeouts = 0
    /\ Len(hist.fed) = Len(ReplyKinds(Lines(wire)))

\* C33: when query, query_binary_values or err_check has ended, with a value
\* or with an error, on a connection whose instrument has sent one reply for
\* each query in time, no byte of those replies is left unread: none is in the
\* socket's buffer and none is under way.
C33_NothingLeftUnread ==
    (/\ Done /\ op.name \in {"query", "query_binary_values", "err_check"}
     /\ AnsweredEach)
        => rx = <<>> /\ inflight = <<>>

====
